---- MODULE Spec2Model ----
(***************************************************************************)
(* Model of flowabot's osu utilities (src/osu_utils.py): the modifier      *)
(* model (parse_mods_string, parse_mods_int, sanitize_mods,                *)
(* speed_multiplier, mod_int), the difficulty parameter calculator         *)
(* (CalculateMods), the strain engine (calculate_strains, get_strains),    *)
(* play reports (MapStats, stat_play) and the play lookups (get_top,       *)
(* get_recent).                                                            *)
(*                                                                         *)
(* Representation.                                                         *)
(*  - A Python str is a sequence of one-character strings.                 *)
(*  - A modifier collection (a list or set without duplicates, as every    *)
(*    producer in the source builds it) is the set of its code names.      *)
(*  - A bitmask is a natural number.                                       *)
(*  - Floats are exact fixed-point numbers: speed multipliers and          *)
(*    difficulty factors in hundredths resp. tenths, difficulty values in  *)
(*    hundredths, time windows in 1/300 ms (so that dividing by 1.5 and by *)
(*    0.75 stays exact).  Strain values, which go through powers and a     *)
(*    square root, are fixed-point numbers in 1/10000, truncated.          *)
(***************************************************************************)
EXTENDS Integers, Sequences, FiniteSets, TLC

VARIABLES
    enabled_mods,   \* the caller's modifier collection (Play.enabled_mods / CalculateMods.mods)
    text,           \* a modifier string handed to the parser, or the display string built last
    mask,           \* an integer bitmask (the API's enabled_mods, or mod_int's result)
    raw,            \* the raw difficulty value handed to CalculateMods, in tenths
    op,             \* the operation that ran last
    ret,            \* what that operation returned (or raised)
    errors,         \* number of Log.error calls so far
    hitobjects,     \* the hit objects of the parsed beatmap (bmp.hitobjects), in time order
    play,           \* the Play a report is built for
    api,            \* what the osu! API holds: the answers its endpoints will give
    timingpoints    \* the timing points of the parsed beatmap (bmp.timingpoints), in time order

vars == <<enabled_mods, text, mask, raw, op, ret, errors, hitobjects, play, api, timingpoints>>

(***************************************************************************)
(* OsuConsts                                                               *)
(***************************************************************************)

\* OsuConsts.MODS: the name at position i has the value 1 << (i - 1).
MODS ==
    << [name |-> "NF",  chars |-> <<"N", "F">>],
       [name |-> "EZ",  chars |-> <<"E", "Z">>],
       [name |-> "TD",  chars |-> <<"T", "D">>],
       [name |-> "HD",  chars |-> <<"H", "D">>],
       [name |-> "HR",  chars |-> <<"H", "R">>],
       [name |-> "SD",  chars |-> <<"S", "D">>],
       [name |-> "DT",  chars |-> <<"D", "T">>],
       [name |-> "RX",  chars |-> <<"R", "X">>],
       [name |-> "HT",  chars |-> <<"H", "T">>],
       [name |-> "NC",  chars |-> <<"N", "C">>],
       [name |-> "FL",  chars |-> <<"F", "L">>],
       [name |-> "AT",  chars |-> <<"A", "T">>],
       [name |-> "SO",  chars |-> <<"S", "O">>],
       [name |-> "AP",  chars |-> <<"A", "P">>],
       [name |-> "PF",  chars |-> <<"P", "F">>],
       [name |-> "4K",  chars |-> <<"4", "K">>],
       [name |-> "5K",  chars |-> <<"5", "K">>],
       [name |-> "6K",  chars |-> <<"6", "K">>],
       [name |-> "7K",  chars |-> <<"7", "K">>],
       [name |-> "8K",  chars |-> <<"8", "K">>],
       [name |-> "FI",  chars |-> <<"F", "I">>],
       [name |-> "RD",  chars |-> <<"R", "D">>],
       [name |-> "LM",  chars |-> <<"L", "M">>],
       [name |-> "TR",  chars |-> <<"T", "R">>],
       [name |-> "9K",  chars |-> <<"9", "K">>],
       [name |-> "10K", chars |-> <<"1", "0", "K">>],
       [name |-> "1K",  chars |-> <<"1", "K">>],
       [name |-> "3K",  chars |-> <<"3", "K">>],
       [name |-> "2K",  chars |-> <<"2", "K">>],
       [name |-> "V2",  chars |-> <<"V", "2">>] >>

ModNames == {MODS[i].name : i \in DOMAIN MODS}

\* OsuConsts.MODS[name]
ModValue(name) == LET i == CHOOSE j \in DOMAIN MODS : MODS[j].name = name IN 2 ^ (i - 1)

DIFF_MODS == {"HR", "EZ", "DT", "HT", "NC", "FL", "HD", "NF"}

\* i & mods, for i a single bit
BitSet(i, mods) == (mods \div i) % 2 = 1

\* Approach-rate windows, in ms.
AR_MS_STEP1 == 120
AR_MS_STEP2 == 150
AR0_MS == 1800
AR5_MS == 1200
AR10_MS == 450

\* Hit windows: the step in ms, the windows 79.5 and 19.5 in tenths of a ms.
OD_MS_STEP == 6
OD0_MS == 795
OD10_MS == 195

\* Speed multipliers 1.5 and 0.75, in hundredths.
DT_SPD == 150
HT_SPD == 75

\* Difficulty factors 1.4, 0.5, 1.3, ..., in tenths.
HR_AR == 14
EZ_AR == 5
HR_CS == 13
EZ_CS == 5
HR_OD == 14
EZ_OD == 5
HR_HP == 14
EZ_HP == 5

(***************************************************************************)
(* Modifier model                                                          *)
(***************************************************************************)

\* str.upper() on the characters the inputs are drawn from.
Upper(c) ==
    CASE c = "h" -> "H"
      [] c = "d" -> "D"
      [] c = "t" -> "T"
      [] c = "r" -> "R"
      [] c = "n" -> "N"
      [] c = "c" -> "C"
      [] c = "o" -> "O"
      [] c = "m" -> "M"
      [] c = "k" -> "K"
      [] OTHER -> c

\* Normalize without the upper-casing.
RECURSIVE NormalizeNoUpper(_)
NormalizeNoUpper(s) ==
    IF s = <<>> THEN <<>>
    ELSE IF Head(s) = "+" THEN NormalizeNoUpper(Tail(s))
    ELSE <<Head(s)>> \o NormalizeNoUpper(Tail(s))

\* mods.replace("+", "").upper()
RECURSIVE Normalize(_)
Normalize(s) ==
    IF s = <<>> THEN <<>>
    ELSE IF Head(s) = "+" THEN Normalize(Tail(s))
    ELSE <<Upper(Head(s))>> \o Normalize(Tail(s))

IsPrefix(p, s) == Len(p) <= Len(s) /\ SubSeq(s, 1, Len(p)) = p

Drop(s, n) == SubSeq(s, n + 1, Len(s))

\* MODS_RE.match: ^(NF|EZ|...|V2)+$ with the engine's backtracking, the
\* alternatives tried in registry order.  k is the number of repetitions of
\* the group matched so far.  The result is [ok, caps]: whether the string
\* matches and the captures of group 1.  "$" also matches before a newline
\* that ends the string.
RECURSIVE MatchFrom(_, _)
MatchAlt(s, k) ==
    LET Try[i \in 1..(Len(MODS) + 1)] ==
            IF i > Len(MODS) THEN [ok |-> FALSE, caps |-> <<>>]
            ELSE IF IsPrefix(MODS[i].chars, s)
                 THEN LET rest == MatchFrom(Drop(s, Len(MODS[i].chars)), k + 1)
                      IN  IF rest.ok
                          THEN [ok |-> TRUE, caps |-> <<MODS[i].name>> \o rest.caps]
                          ELSE Try[i + 1]
                 ELSE Try[i + 1]
    IN  Try[1]
MatchFrom(s, k) ==
    IF k > 0 /\ (s = <<>> \/ s = <<"\n">>) THEN [ok |-> TRUE, caps |-> <<>>]
    ELSE IF s = <<>> THEN [ok |-> FALSE, caps |-> <<>>]
    ELSE MatchAlt(s, k)

MODS_RE_match(s) == MatchFrom(s, 0)

SeqToSet(q) == {q[i] : i \in DOMAIN q}

Nomod == <<"n", "o", "m", "o", "d">>

\* parse_mods_string: [raised, value, logged]; value is list(set(matches)),
\* logged tells whether Log.error was called.
parse_mods_string(mods) ==
    IF mods = <<>> \/ mods = Nomod
    THEN [raised |-> "", value |-> {}, logged |-> FALSE]
    ELSE LET mods_included == MODS_RE_match(Normalize(mods))
         IN  IF ~mods_included.ok
             THEN [raised |-> "", value |-> {}, logged |-> TRUE]
             ELSE [raised |-> "", value |-> SeqToSet(mods_included.caps), logged |-> FALSE]

\* parse_mods_int reading each name one bit too high.
parse_mods_int_shifted(mods) ==
    IF mods = 0 THEN {}
    ELSE {MODS[i].name : i \in {j \in DOMAIN MODS : BitSet(2 ^ j, mods)}}

\* parse_mods_int: the names of MODS_INT whose bit is set in mods.
parse_mods_int(mods) ==
    IF mods = 0 THEN {}
    ELSE {MODS[i].name : i \in {j \in DOMAIN MODS : BitSet(2 ^ (j - 1), mods)}}

\* sanitize_mods: the collection after the in-place removals; the function
\* returns the very object it was given.
sanitize_mods(mods) ==
    LET m1 == IF "NC" \in mods /\ "DT" \in mods THEN mods \ {"DT"} ELSE mods
        m2 == IF "PF" \in m1 /\ "SD" \in m1 THEN m1 \ {"SD"} ELSE m1
    IN  m2

\* speed_multiplier testing for DT alone, as CalculateMods.od does.
speed_multiplier_no_nc(mods) ==
    IF "DT" \in mods THEN DT_SPD
    ELSE IF "HT" \in mods THEN HT_SPD
    ELSE 100

\* speed_multiplier, in hundredths.
speed_multiplier(mods) ==
    IF "DT" \in mods \/ "NC" \in mods THEN DT_SPD
    ELSE IF "HT" \in mods THEN HT_SPD
    ELSE 100

RECURSIVE SumValues(_)
SumValues(S) ==
    IF S = {} THEN 0
    ELSE LET x == CHOOSE y \in S : TRUE IN ModValue(x) + SumValues(S \ {x})

\* The tail of mod_int: add DT under NC, keep the DIFF_MODS, sum their bits.
ModIntOfSet(S) ==
    LET mod_list == IF "NC" \in S THEN S \cup {"DT"} ELSE S
    IN  SumValues(mod_list \cap DIFF_MODS)

\* mod_int: [raised, value, logged].  type is the Python type of the argument:
\* "int", "str", or "list" (a list or a set; both are copied with set()).
\* The str branch binds the list parse_mods_string returns, and a list has
\* no add(): with NC in it the call ends in AttributeError.
mod_int(type, mod_list) ==
    IF type = "int" THEN [raised |-> "", value |-> mod_list, logged |-> FALSE]
    ELSE IF type = "str"
    THEN LET parsed == parse_mods_string(mod_list)
         IN  IF "NC" \in parsed.value
             THEN [raised |-> "AttributeError", value |-> 0, logged |-> parsed.logged]
             ELSE [raised |-> "", value |-> SumValues(parsed.value \cap DIFF_MODS),
                   logged |-> parsed.logged]
    ELSE [raised |-> "", value |-> ModIntOfSet(mod_list), logged |-> FALSE]

\* ','.join(mods) for a list in registry order (the order parse_mods_int
\* builds; no claim depends on the order).
RECURSIVE JoinFrom(_, _, _)
JoinFrom(mods, i, first) ==
    IF i > Len(MODS) THEN <<>>
    ELSE IF MODS[i].name \in mods
         THEN (IF first THEN <<>> ELSE <<",">>) \o MODS[i].chars \o JoinFrom(mods, i + 1, FALSE)
         ELSE JoinFrom(mods, i + 1, first)

\* The display string joined with "" instead of ",".
JoinNoComma(mods) ==
    LET Cat[i \in 1..(Len(MODS) + 1)] ==
            IF i > Len(MODS) THEN <<>>
            ELSE (IF MODS[i].name \in mods THEN MODS[i].chars ELSE <<>>) \o Cat[i + 1]
    IN  Cat[1]

Join(mods) == JoinFrom(mods, 1, TRUE)

(***************************************************************************)
(* Inputs                                                                  *)
(***************************************************************************)

\* Bounds of the model.
MaxTokens == 3      \* pieces a modifier string is put together from
MaxExtra == 1       \* bits of an API bitmask besides the ones in CoreBits
MaxRaw == 120       \* largest raw difficulty value, in tenths

\* The pieces modifier strings are built from: codes, a lower-case code, the
\* characters of the command syntax and of the display form, and text that
\* is no code.
Tokens ==
    { <<"H", "D">>, <<"D", "T">>, <<"N", "C">>, <<"T", "D">>, <<"1", "0", "K">>,
      <<"h", "r">>, <<"+">>, <<",">>, Nomod, <<"\n">> }

RECURSIVE Flatten(_)
Flatten(ts) == IF ts = <<>> THEN <<>> ELSE Head(ts) \o Flatten(Tail(ts))

TextInputs == {Flatten(ts) : ts \in UNION {[1..n -> Tokens] : n \in 0..MaxTokens}}

\* Bit positions the modifier model branches on (SD, DT, HT, NC, PF), taken in
\* every combination, and the other positions 0..30 (30 is in no registry
\* entry), of which a bitmask holds at most MaxExtra.
CoreBits == {5, 6, 8, 9, 14}
ExtraBits == (0..30) \ CoreBits

RECURSIVE SumBits(_)
SumBits(B) ==
    IF B = {} THEN 0
    ELSE LET b == CHOOSE x \in B : TRUE IN 2 ^ b + SumBits(B \ {b})

\* The subsets of S with at most k elements.
RECURSIVE UpTo(_, _)
UpTo(S, k) ==
    IF k = 0 THEN {{}}
    ELSE LET P == UpTo(S, k - 1) IN P \cup {X \cup {e} : X \in P, e \in S}

MaskInputs == {SumBits(C \cup E) : C \in SUBSET CoreBits, E \in UpTo(ExtraBits, MaxExtra)}

NoRet == [raised |-> "", value |-> 0]

\* No play under report.
NoPlay == [user_id |-> 0]

\* The API's answers: whether the map file, the map's creator, the map's
\* metadata, the player's profile and the play's replay exist, and the lists
\* of plays it holds.
\* ApiOk is an API that finds everything and holds no plays.
ApiOk ==
    [map_file |-> TRUE, creator |-> TRUE, metadata |-> TRUE, user |-> TRUE, replay |-> TRUE,
     leaderboard |-> <<>>, user_best |-> <<>>, user_recent |-> <<>>, map_best |-> <<>>]
NoApi == ApiOk

(***************************************************************************)
(* The modifier model in use: a string from a command or a bitmask from    *)
(* the API comes in, and the functions are called on it and on the         *)
(* collection built from it.                                               *)
(***************************************************************************)

Init ==
    /\ \/ text \in TextInputs /\ mask = 0 /\ op = "input_text"
       \/ text = <<>> /\ mask \in MaskInputs /\ op = "api_response"
    /\ enabled_mods = {}
    /\ raw = 0
    /\ ret = NoRet
    /\ errors = 0
    /\ timingpoints = <<>>
    /\ hitobjects = <<>>
    /\ play = NoPlay
    /\ api = NoApi

\* The stages in which the caller holds a modifier collection.
HoldsMods == op \in {"parse_mods_int", "mod_int", "speed_multiplier", "sanitize_mods", "embed_play"}

\* parse_mods_string(text), on a string from a command or on the display
\* string embed_play has built.
ParseModsString ==
    /\ op \in {"input_text", "embed_play"}
    /\ LET r == parse_mods_string(text)
       IN  /\ ret' = [raised |-> r.raised, value |-> r.value]
           /\ errors' = IF r.logged THEN errors + 1 ELSE errors
    /\ op' = IF op = "input_text" THEN "parse_mods_string" ELSE "parse_display"
    /\ UNCHANGED <<enabled_mods, text, mask, raw, hitobjects, play, api, timingpoints>>

\* Play.__init__: self.enabled_mods = parse_mods_int(play_dict["enabled_mods"]);
\* also parse_mods_int on a bitmask mod_int has returned.
ParseModsInt ==
    /\ op \in {"api_response", "mod_int"}
    /\ enabled_mods' = parse_mods_int(mask)
    /\ ret' = [raised |-> "", value |-> enabled_mods']
    /\ op' = "parse_mods_int"
    /\ UNCHANGED <<text, mask, raw, errors, hitobjects, play, api, timingpoints>>

\* sanitize_mods(enabled_mods): the argument itself is changed and returned.
SanitizeMods ==
    /\ HoldsMods
    /\ enabled_mods' = sanitize_mods(enabled_mods)
    /\ ret' = [raised |-> "", value |-> enabled_mods']
    /\ op' = "sanitize_mods"
    /\ UNCHANGED <<text, mask, raw, errors, hitobjects, play, api, timingpoints>>

\* embed_play: if play_stats.mods: "+" + ','.join(sanitize_mods(play_stats.mods));
\* play_stats.mods is the play's enabled_mods list itself (stat_play, "mods": play.enabled_mods).
EmbedPlay ==
    /\ HoldsMods
    /\ IF enabled_mods # {}
       THEN /\ enabled_mods' = sanitize_mods(enabled_mods)
            /\ text' = Join(enabled_mods')
       ELSE UNCHANGED <<enabled_mods, text>>
    /\ ret' = NoRet
    /\ op' = "embed_play"
    /\ UNCHANGED <<mask, raw, errors, hitobjects, play, api, timingpoints>>

\* speed_multiplier(enabled_mods)
SpeedMultiplier ==
    /\ HoldsMods
    /\ ret' = [raised |-> "", value |-> speed_multiplier(enabled_mods)]
    /\ op' = "speed_multiplier"
    /\ UNCHANGED <<enabled_mods, text, mask, raw, errors, hitobjects, play, api, timingpoints>>

\* mod_int on a list: the play's enabled_mods, or the list parse_mods_string
\* has just returned.
ModInt ==
    /\ HoldsMods \/ op = "parse_mods_string"
    /\ LET r == mod_int("list", IF op = "parse_mods_string" THEN ret.value ELSE enabled_mods)
       IN  /\ ret' = [raised |-> r.raised, value |-> r.value]
           /\ mask' = r.value
    /\ op' = "mod_int"
    /\ UNCHANGED <<enabled_mods, text, raw, errors, hitobjects, play, api, timingpoints>>

\* mod_int(text): the str branch.
ModIntStr ==
    /\ op = "input_text"
    /\ LET r == mod_int("str", text)
       IN  /\ ret' = [raised |-> r.raised, value |-> r.value]
           /\ mask' = IF r.raised = "" THEN r.value ELSE mask
           /\ errors' = IF r.logged THEN errors + 1 ELSE errors
    /\ op' = "mod_int_str"
    /\ UNCHANGED <<enabled_mods, text, raw, hitobjects, play, api, timingpoints>>

\* mod_int(mask): the int branch.
ModIntInt ==
    /\ op = "api_response"
    /\ LET r == mod_int("int", mask)
       IN  ret' = [raised |-> r.raised, value |-> r.value]
    /\ op' = "mod_int_int"
    /\ UNCHANGED <<enabled_mods, text, mask, raw, errors, hitobjects, play, api, timingpoints>>

Next ==
    \/ ParseModsString
    \/ ParseModsInt
    \/ SanitizeMods
    \/ EmbedPlay
    \/ SpeedMultiplier
    \/ ModInt
    \/ ModIntStr
    \/ ModIntInt

Spec == Init /\ [][Next]_vars

(***************************************************************************)
(* CalculateMods                                                           *)
(***************************************************************************)

Min(a, b) == IF a <= b THEN a ELSE b
Max(a, b) == IF a >= b THEN a ELSE b

\* The multiplier chain with the EZ test first.
MultiplierEzFirst(mods, hr, ez) ==
    IF "EZ" \in mods THEN ez
    ELSE IF "HR" \in mods THEN hr
    ELSE 10

\* The multiplier chain of ar, cs, od and hp, in tenths: 1. times the HR
\* factor if HR is in the mods, elif EZ the EZ factor.
Multiplier(mods, hr, ez) ==
    IF "HR" \in mods THEN hr
    ELSE IF "EZ" \in mods THEN ez
    ELSE 10

\* ArWindow without the clamp at AR10_MS.
ArWindowNoFloor(mods, raw_ar) ==
    LET ar == raw_ar * Multiplier(mods, HR_AR, EZ_AR)
        ar_ms == IF ar <= 500
                 THEN 3 * (AR0_MS * 100 - AR_MS_STEP1 * ar)
                 ELSE 3 * (AR5_MS * 100 - AR_MS_STEP2 * (ar - 500))
    IN  IF ar_ms > AR0_MS * 300 THEN AR0_MS * 300 ELSE ar_ms

\* CalculateMods.ar up to the clamps: the approach window in 1/300 ms.
\* raw_ar is in tenths, ar in hundredths.
ArWindow(mods, raw_ar) ==
    LET ar == raw_ar * Multiplier(mods, HR_AR, EZ_AR)
        ar_ms == IF ar <= 500
                 THEN 3 * (AR0_MS * 100 - AR_MS_STEP1 * ar)
                 ELSE 3 * (AR5_MS * 100 - AR_MS_STEP2 * (ar - 500))
        lo == IF ar_ms < AR10_MS * 300 THEN AR10_MS * 300 ELSE ar_ms
        hi == IF lo > AR0_MS * 300 THEN AR0_MS * 300 ELSE lo
    IN  hi

\* CalculateMods.ar: [ar, ar_ms]; ar_ms in 1/300 ms, ar the fraction
\* num / den.
CalculateMods_ar(mods, raw_ar) ==
    LET speed == speed_multiplier(mods)
        ar0 == raw_ar * Multiplier(mods, HR_AR, EZ_AR)
        ar_ms == (ArWindow(mods, raw_ar) * 100) \div speed
        ar == IF ar0 <= 500
              THEN [num |-> AR0_MS * 300 - ar_ms, den |-> AR_MS_STEP1 * 300]
              ELSE [num |-> 5 * AR_MS_STEP2 * 300 + AR5_MS * 300 - ar_ms,
                    den |-> AR_MS_STEP2 * 300]
    IN  [ar |-> ar, ar_ms |-> ar_ms]

\* CalculateMods.cs, in hundredths.
CalculateMods_cs(mods, raw_cs) == Min(raw_cs * Multiplier(mods, HR_CS, EZ_CS), 1000)

\* The speed CalculateMods.od computes for itself, in hundredths.
OdSpeed(mods) ==
    IF "DT" \in mods THEN DT_SPD
    ELSE IF "HT" \in mods THEN HT_SPD
    ELSE 100

\* CalculateMods.od up to the clamp: the hit window in 1/300 ms.
\* math.ceil(6 * od) for od in hundredths is (6 * od + 99) \div 100.
OdWindow(mods, raw_od) ==
    LET od == raw_od * Multiplier(mods, HR_OD, EZ_OD)
        odms == 30 * (OD0_MS - 10 * ((OD_MS_STEP * od + 99) \div 100))
    IN  Min(Max(OD10_MS * 30, odms), OD0_MS * 30)

\* CalculateMods.od: [od, odms]; odms in 1/300 ms, od the fraction num / den.
CalculateMods_od(mods, raw_od) ==
    LET odms == (OdWindow(mods, raw_od) * 100) \div OdSpeed(mods)
    IN  [od |-> [num |-> OD0_MS * 30 - odms, den |-> OD_MS_STEP * 300], odms |-> odms]

\* CalculateMods.hp, in hundredths.
CalculateMods_hp(mods, raw_hp) == Min(raw_hp * Multiplier(mods, HR_HP, EZ_HP), 1000)

\* The codes CalculateMods and speed_multiplier test for, and two they do not.
DiffPool == {"HR", "EZ", "DT", "HT", "NC", "HD", "SD"}

\* A CalculateMods object built on a list of mods (self.mods is the list
\* itself), and a raw value of the map.
InitDiff ==
    /\ enabled_mods \in SUBSET DiffPool
    /\ raw \in 0..MaxRaw
    /\ text = <<>>
    /\ mask = 0
    /\ op = "CalculateMods"
    /\ ret = NoRet
    /\ errors = 0
    /\ timingpoints = <<>>
    /\ hitobjects = <<>>
    /\ play = NoPlay
    /\ api = NoApi

Ar ==
    /\ ret' = [raised |-> "", value |-> CalculateMods_ar(enabled_mods, raw)]
    /\ op' = "ar"
    /\ UNCHANGED <<enabled_mods, text, mask, raw, errors, hitobjects, play, api, timingpoints>>

Cs ==
    /\ ret' = [raised |-> "", value |-> CalculateMods_cs(enabled_mods, raw)]
    /\ op' = "cs"
    /\ UNCHANGED <<enabled_mods, text, mask, raw, errors, hitobjects, play, api, timingpoints>>

Od ==
    /\ ret' = [raised |-> "", value |-> CalculateMods_od(enabled_mods, raw)]
    /\ op' = "od"
    /\ UNCHANGED <<enabled_mods, text, mask, raw, errors, hitobjects, play, api, timingpoints>>

Hp ==
    /\ ret' = [raised |-> "", value |-> CalculateMods_hp(enabled_mods, raw)]
    /\ op' = "hp"
    /\ UNCHANGED <<enabled_mods, text, mask, raw, errors, hitobjects, play, api, timingpoints>>

NextDiff ==
    \/ Ar
    \/ Cs
    \/ Od
    \/ Hp

SpecDiff == InitDiff /\ [][NextDiff]_vars

(***************************************************************************)
(* The strain engine: calculate_strains and get_strains.                   *)
(*                                                                         *)
(* A hit object is [starttime, strains]: its time in ms and its two strain *)
(* contributions, strains[1] the speed one and strains[2] the aim one      *)
(* (Python's strains[0] and strains[1]).  Strain values are fixed-point    *)
(* numbers in units of 1/10000, every operation truncating towards zero;   *)
(* max_strain_time, a strain value times STRAIN_STEP plus a time, is in    *)
(* 1/10000 ms.                                                             *)
(***************************************************************************)

STRAIN_STEP == 400
DECAY_BASE == <<30, 15>>            \* in hundredths
STAR_SCALING_FACTOR == 675          \* in ten-thousandths
EXTREME_SCALING_FACTOR == 5         \* in tenths
STRAIN_ONE == 10000                 \* the strain value 1.0

FloorDiv(a, b) == a \div b

CeilDivDown(a, b) == a \div b

CeilDiv(a, b) == (a + b - 1) \div b

\* OsuConsts.STRAIN_STEP.value * speed_multiplier, speed in hundredths
StrainStep(speed) == (STRAIN_STEP * speed) \div 100

\* strain * (base ** elapsed / 1000), elapsed >= 0 in ms
RECURSIVE Pow(_, _, _)
Pow(x, base, elapsed) ==
    IF elapsed = 0 \/ x = 0 THEN x ELSE Pow((x * base) \div 100, base, elapsed - 1)

Decayed(strain, base, elapsed) == Pow(strain, base, elapsed) \div 1000

\* the while loop of calculate_strains for hit object i (1-based); st is
\* [strains, max_strains, interval_emd]
RECURSIVE CloseIntervals(_, _, _, _, _)
CloseIntervals(mode_type, hit_objects, i, strain_step, st) ==
    IF hit_objects[i].starttime > st.interval_emd
    THEN CloseIntervals(mode_type, hit_objects, i, strain_step,
             [strains |-> Append(st.strains, st.max_strains),
              max_strains |->
                  IF i > 1
                  THEN Decayed(hit_objects[i - 1].strains[mode_type + 1],
                               DECAY_BASE[mode_type + 1],
                               st.interval_emd - hit_objects[i - 1].starttime)
                  ELSE 0,
              interval_emd |-> st.interval_emd + strain_step])
    ELSE st

\* the for loop of calculate_strains from hit object i on
RECURSIVE StrainLoop(_, _, _, _, _)
StrainLoop(mode_type, hit_objects, i, strain_step, st) ==
    IF i > Len(hit_objects)
    THEN st
    ELSE LET c == CloseIntervals(mode_type, hit_objects, i, strain_step, st)
         IN  IF c.max_strains >= hit_objects[i].strains[mode_type + 1]
             THEN StrainLoop(mode_type, hit_objects, i + 1, strain_step, c)
             ELSE StrainLoop(mode_type, hit_objects, i + 1, strain_step,
                      [c EXCEPT !.max_strains = hit_objects[i].strains[mode_type + 1]])

\* the strains list of calculate_strains before the rescaling loop;
\* hit_objects is not empty
RawStrains(mode_type, hit_objects, speed) ==
    LET strain_step == StrainStep(speed)
        st == StrainLoop(mode_type, hit_objects, 1, strain_step,
                  [strains |-> <<>>,
                   max_strains |-> 0,
                   interval_emd |-> CeilDiv(hit_objects[1].starttime, strain_step) * strain_step])
    IN  Append(st.strains, st.max_strains)

\* math.sqrt on a fixed-point value: the largest r with r * r <= n
RECURSIVE IsqrtBetween(_, _, _)
IsqrtBetween(n, lo, hi) ==
    IF lo >= hi
    THEN lo
    ELSE LET mid == (lo + hi + 1) \div 2
         IN  IF mid * mid <= n THEN IsqrtBetween(n, mid, hi) ELSE IsqrtBetween(n, lo, mid - 1)

Isqrt(n) == IsqrtBetween(n, 0, Min(n, 46340))

\* i *= 9.999; strains[j] = math.sqrt(i) * STAR_SCALING_FACTOR
Rescale(i) == (Isqrt(((i * 9999) \div 1000) * 10000) * STAR_SCALING_FACTOR) \div 10000

\* calculate_strains(mode_type, hit_objects, speed_multiplier)
calculate_strains(mode_type, hit_objects, speed) ==
    IF hit_objects = <<>>
    THEN [raised |-> "IndexError", value |-> <<>>]
    ELSE LET strains == RawStrains(mode_type, hit_objects, speed)
         IN  [raised |-> "", value |-> [j \in 1..Len(strains) |-> Rescale(strains[j])]]

Abs(x) == IF x < 0 THEN -x ELSE x

star_strains_sum(aim_strains, speed_strains) ==
    [i \in 1..Len(aim_strains) |-> aim_strains[i] + speed_strains[i]]

\* the loop building star_strains in get_strains
star_strains(aim_strains, speed_strains) ==
    [i \in 1..Len(aim_strains) |->
        aim_strains[i] + speed_strains[i]
        + (Abs(speed_strains[i] - aim_strains[i]) * EXTREME_SCALING_FACTOR) \div 10]

\* the loop over chosen_strains in get_strains: the loop variable is the
\* strain value; st is [max_strain, max_strain_time]
RECURSIVE PeakLoop(_, _, _, _)
PeakLoop(chosen_strains, j, strain_offset, st) ==
    IF j > Len(chosen_strains)
    THEN st
    ELSE LET i == chosen_strains[j]
         IN  PeakLoop(chosen_strains, j + 1, strain_offset,
                 IF i > st.max_strain
                 THEN [max_strain |-> i,
                       max_strain_time |-> i * STRAIN_STEP + strain_offset * STRAIN_ONE]
                 ELSE st)

\* get_strains(beatmap, mods, mode) on a beatmap with hit objects; the
\* result carries the returned keys and the locals aim_strains,
\* speed_strains, star_strains and strain_offset
get_strains(hit_objects, mods, mode) ==
    LET speed == speed_multiplier(mods)
        aim_strains == calculate_strains(1, hit_objects, speed).value
        speed_strains == calculate_strains(0, hit_objects, speed).value
        strain_step == StrainStep(speed)
        strain_offset == FloorDiv(hit_objects[1].starttime, strain_step) * strain_step - strain_step
        stars == star_strains(aim_strains, speed_strains)
        chosen_strains == CASE mode = "speed" -> speed_strains
                            [] mode = "aim" -> aim_strains
                            [] OTHER -> stars
        pk == PeakLoop(chosen_strains, 1, strain_offset,
                  [max_strain |-> 0, max_strain_time |-> strain_offset * STRAIN_ONE])
    IN  [raised |-> "",
         strains |-> chosen_strains,
         max_strain |-> pk.max_strain,
         max_strain_time |-> pk.max_strain_time,
         max_strain_time_real |-> (pk.max_strain_time * speed) \div 100,
         aim_strains |-> aim_strains,
         speed_strains |-> speed_strains,
         star_strains |-> stars,
         strain_offset |-> strain_offset]

(***************************************************************************)
(* MapStats.__init__ as far as the hit objects and the API decide it: the  *)
(* fetches it makes, in order, and the failure that ends it.  The timing   *)
(* points of the map are taken to hold a bpm change.                       *)
(***************************************************************************)

MapStats(hit_objects, a) ==
    LET failed(kind, calls) ==
            [raised |-> kind, calls |-> calls, hit_objects |-> 0, leaderboard |-> <<>>]
    IN  CASE ~a.map_file -> failed("BadLink", <<"map_file">>)
          [] a.map_file /\ hit_objects = <<>> -> failed("BadMapFile", <<"map_file">>)
          [] a.map_file /\ hit_objects # <<>> /\ ~a.creator ->
                failed("UserNonexistent", <<"map_file", "get_user">>)
          [] a.map_file /\ hit_objects # <<>> /\ a.creator /\ ~a.metadata ->
                failed("BadId", <<"map_file", "get_user", "getStats", "get_beatmaps">>)
          [] a.map_file /\ hit_objects # <<>> /\ a.creator /\ a.metadata
                /\ hit_objects[Len(hit_objects)].starttime = hit_objects[1].starttime ->
                failed("ZeroDivisionError",
                       <<"map_file", "get_user", "getStats", "get_beatmaps", "get_leaderboard">>)
          [] OTHER ->
                [raised |-> "",
                 calls |-> <<"map_file", "get_user", "getStats", "get_beatmaps", "get_leaderboard">>,
                 hit_objects |-> Len(hit_objects),
                 leaderboard |-> a.leaderboard]

(***************************************************************************)
(* The strain engine in use: a parsed beatmap and a list of mods, and one  *)
(* call of an entry point on them.                                         *)
(***************************************************************************)

MaxObjects == 3     \* hit objects of a beatmap

Times == {0, 500, 750, 1000}

\* <<speed strain, aim strain>> of a hit object
StrainPairs == {<<5000, 10000>>, <<5000, 20000>>, <<5000, 15000>>, <<20000, 0>>}

HitObjectInputs ==
    UNION {{[i \in 1..n |-> [starttime |-> t[i], strains |-> s[i]]] :
                t \in {u \in [1..n -> Times] : \A i \in 1..(n - 1) : u[i] <= u[i + 1]},
                s \in [1..n -> StrainPairs]} : n \in 0..MaxObjects}

InitStrain ==
    /\ hitobjects \in HitObjectInputs
    /\ enabled_mods \in {{}, {"DT"}, {"HT"}}
    /\ api = ApiOk
    /\ play = NoPlay
    /\ text = <<>>
    /\ mask = 0
    /\ raw = 0
    /\ op = "OsuMap"
    /\ ret = NoRet
    /\ errors = 0
    /\ timingpoints = <<>>

\* calculate_strains(mode_type, bmp.hitobjects, speed_multiplier(mods))
CalculateStrains ==
    /\ op = "OsuMap"
    /\ \E mode_type \in {0, 1} :
          LET r == calculate_strains(mode_type, hitobjects, speed_multiplier(enabled_mods))
          IN  ret' = [raised |-> r.raised, value |-> r.value, mode_type |-> mode_type]
    /\ op' = "calculate_strains"
    /\ UNCHANGED <<enabled_mods, text, mask, raw, errors, hitobjects, play, api, timingpoints>>

\* get_strains(bmp, mods, mode).  On a beatmap without hit objects either
\* the library's getStats fails or calculate_strains does.
GetStrains ==
    /\ op = "OsuMap"
    /\ \E mode \in {"", "aim", "speed"} :
          IF hitobjects = <<>>
          THEN \E kind \in {"LibraryError", calculate_strains(1, hitobjects, 100).raised} :
                  ret' = [raised |-> kind, mode |-> mode]
          ELSE ret' = get_strains(hitobjects, enabled_mods, mode) @@ [mode |-> mode]
    /\ op' = "get_strains"
    /\ UNCHANGED <<enabled_mods, text, mask, raw, errors, hitobjects, play, api, timingpoints>>

\* MapStats(map_id, mods, "id")
MapStatsInit ==
    /\ op = "OsuMap"
    /\ ret' = MapStats(hitobjects, api)
    /\ op' = "MapStats"
    /\ UNCHANGED <<enabled_mods, text, mask, raw, errors, hitobjects, play, api, timingpoints>>

NextStrain ==
    \/ CalculateStrains
    \/ GetStrains
    \/ MapStatsInit

SpecStrain == InitStrain /\ [][NextStrain]_vars

(***************************************************************************)
(* Play reports: stat_play and the fetches it makes.                       *)
(*                                                                         *)
(* A Play is a record of the fields of the API's answer that the code      *)
(* reads; a Python str (rank) is a sequence of characters, None is the     *)
(* empty sequence and a value v that may be None is <<v>>.  The play's     *)
(* enabled_mods is the variable enabled_mods.                              *)
(***************************************************************************)

\* Play.__eq__
Play_eq(self, other) == self.date = other.date /\ self.user_id = other.user_id

\* get_user_best(user, limit): the API answers with at most limit plays
get_user_best(a, limit) ==
    LET response == SubSeq(a.user_best, 1, Min(limit, Len(a.user_best)))
    IN  [raised |-> IF response = <<>> THEN "NoPlays" ELSE "", value |-> response]

\* get_user_recent(user, limit)
get_user_recent(a, limit) ==
    LET response == SubSeq(a.user_recent, 1, Min(limit, Len(a.user_recent)))
    IN  [raised |-> IF response = <<>> THEN "NoPlays" ELSE "", value |-> response]

\* get_user(user)[0]
get_user(found) == [raised |-> IF found THEN "" ELSE "UserNonexistent"]

\* get_replay(beatmap_id, user_id, mods, 0)
get_replay(a) == [raised |-> IF a.replay THEN "" ELSE "NoReplay"]

\* An argument the caller leaves to getPP's default.
NotPassed == -1

\* beatmap.getPP(...) of the library: what it returns is a function of the
\* arguments it was called with
getPP(args) == [total_pp |-> <<"total_pp", args>>, accuracy |-> <<"accuracy", args>>]

UpperStr(str) == [i \in DOMAIN str |-> Upper(str[i])]

\* the two loops "for j, i in enumerate(...): if i == play: ... = j + 1; break"
LastMatch(list, p) ==
    IF \E j \in DOMAIN list : Play_eq(list[j], p)
    THEN CHOOSE j \in DOMAIN list :
            Play_eq(list[j], p) /\ \A k \in (j + 1)..Len(list) : ~Play_eq(list[k], p)
    ELSE 0

FirstMatch(list, p) ==
    IF \E j \in DOMAIN list : Play_eq(list[j], p)
    THEN CHOOSE j \in DOMAIN list :
            Play_eq(list[j], p) /\ \A k \in 1..(j - 1) : ~Play_eq(list[k], p)
    ELSE 0

CompletionAlwaysOne(p, hit_objects) == [num |-> 1, den |-> 1]

\* completion, lines 978-982, as a fraction num / den
Completion(p, hit_objects) ==
    IF UpperStr(p.rank) = <<"F">>
    THEN [num |-> p.count300 + p.count100 + p.count50 + p.countmiss, den |-> hit_objects]
    ELSE [num |-> 1, den |-> 1]

\* the arguments of the first getPP call, lines 1037-1039
PlayArgs(p, Mods) ==
    [Mods |-> Mods, combo |-> p.maxcombo, misses |-> p.countmiss,
     n300 |-> p.count300, n100 |-> p.count100, n50 |-> p.count50]

FcArgsNoFold(p, Mods) ==
    [Mods |-> Mods, combo |-> NotPassed, misses |-> NotPassed,
     n300 |-> p.count300, n100 |-> p.count100, n50 |-> p.count50]

\* the arguments of the second getPP call, lines 1040-1042
FcArgs(p, Mods) ==
    [Mods |-> Mods, combo |-> NotPassed, misses |-> NotPassed,
     n300 |-> p.count300 + p.countmiss, n100 |-> p.count100, n50 |-> p.count50]

NoReport == [unsubmitted |-> FALSE]

\* how a call of stat_play ends
Raises(kind) == [raised |-> kind, returned |-> "", logged |-> FALSE, report |-> NoReport]
ReturnsNone == [raised |-> "", returned |-> "None", logged |-> TRUE, report |-> NoReport]

\* stat_play(play): [raised, returned, logged, report]
stat_play(p, mods, hit_objects, a) ==
    LET map_obj == MapStats(hit_objects, a)
        completion == Completion(p, map_obj.hit_objects)
        user_leaderboard == get_user_best(a, 100)
        map_leaderboard == map_obj.leaderboard
        best_score == a.map_best
        user == get_user(a.user)
        submitted == best_score # <<>> /\ Play_eq(p, best_score[1])
        replay == IF submitted THEN best_score[1].replay_available ELSE 0
        pp == getPP(PlayArgs(p, mod_int("list", mods).value))
        pp_fc == getPP(FcArgs(p, mod_int("list", mods).value))
        recent ==
            [user_id |-> p.user_id, rank |-> p.rank, score |-> p.score,
             combo |-> p.maxcombo, count300 |-> p.count300, count100 |-> p.count100,
             count50 |-> p.count50, countmiss |-> p.countmiss, mods |-> mods,
             date |-> p.date,
             unsubmitted |-> best_score # <<>> /\ ~Play_eq(p, best_score[1]),
             performance_points |->
                 IF p.performance_points = <<>> THEN <<pp.total_pp>> ELSE p.performance_points,
             pb |-> FirstMatch(user_leaderboard.value, p),
             lb |-> FirstMatch(map_leaderboard, p),
             score_id |-> IF submitted THEN <<best_score[1].score_id>> ELSE <<>>,
             pp_fc |-> pp_fc.total_pp,
             acc |-> pp.accuracy,
             acc_fc |-> pp_fc.accuracy,
             replay |-> IF replay # 0 THEN <<"replay">> ELSE <<>>,
             completion |-> completion]
    IN  CASE map_obj.raised # "" -> Raises(map_obj.raised)
          [] map_obj.raised = "" /\ get_strains(hit_objects, mods, "").max_strain = 0 ->
                Raises("ZeroDivisionError")
          [] OTHER ->
                IF user_leaderboard.raised # "" \/ user.raised # ""
                THEN ReturnsNone
                ELSE IF replay # 0 /\ get_replay(a).raised # ""
                THEN Raises(get_replay(a).raised)
                ELSE [raised |-> "", returned |-> "report", logged |-> FALSE, report |-> recent]

(***************************************************************************)
(* stat_play in use: a play of player 1 set at date 1, a beatmap, and the  *)
(* plays and profiles the API holds.                                       *)
(***************************************************************************)

MaxList == 2        \* plays in the player's best list and in the map leaderboard

\* The plays a report is built for: a failed play with hit counts
\* 40/5/2/3 and no pp, a failed play that reached the end of the map, and a
\* passed play with pp.
PlayInputs ==
    {[user_id |-> 1, date |-> 1, score |-> 100, rank |-> <<"F">>, count300 |-> 40,
      count100 |-> 5, count50 |-> 2, countmiss |-> 3, maxcombo |-> 30,
      performance_points |-> <<>>],
     [user_id |-> 1, date |-> 1, score |-> 100, rank |-> <<"F">>, count300 |-> 60,
      count100 |-> 0, count50 |-> 0, countmiss |-> 0, maxcombo |-> 60,
      performance_points |-> <<>>],
     [user_id |-> 1, date |-> 1, score |-> 100, rank |-> <<"A">>, count300 |-> 52,
      count100 |-> 5, count50 |-> 2, countmiss |-> 1, maxcombo |-> 41,
      performance_points |-> <<250>>]}

\* Plays the API holds: one of the same player and date as the play under
\* report and different in every other field, one of the same player at
\* another date, one of another player at the same date.
Stored(user_id, date, replay_available) ==
    [user_id |-> user_id, date |-> date, score |-> 200 + user_id + date, rank |-> <<"S">>,
     count300 |-> 59, count100 |-> 1, count50 |-> 0, countmiss |-> 0, maxcombo |-> 59,
     performance_points |-> <<300>>, replay_available |-> replay_available,
     score_id |-> 10 * user_id + date]

StoredPlays == {Stored(1, 1, 0), Stored(1, 2, 0), Stored(2, 1, 0)}

PlayLists == UNION {[1..n -> StoredPlays] : n \in 0..MaxList}

\* The lists of plays of player 1 alone.
OwnLists == {l \in PlayLists : \A j \in DOMAIN l : l[j].user_id = 1}

\* A beatmap of n hit objects 10 ms apart.
Uniform(n) == [i \in 1..n |-> [starttime |-> 10 * i, strains |-> <<5000, 10000>>]]

ApiInputs ==
    {[map_file |-> f[1], creator |-> f[2], metadata |-> f[3], user |-> f[4], replay |-> f[5],
      leaderboard |-> lb, user_best |-> ub, user_recent |-> <<>>, map_best |-> mb] :
        f \in {g \in [1..5 -> BOOLEAN] : Cardinality({i \in 1..5 : ~g[i]}) <= 1},
        lb \in PlayLists, ub \in OwnLists,
        mb \in {<<>>, <<Stored(1, 1, 0)>>, <<Stored(1, 1, 1)>>, <<Stored(1, 2, 1)>>}}

AllFound(a) == a.map_file /\ a.creator /\ a.metadata /\ a.user /\ a.replay

\* The play under report is the player's most recent one.  Every play list
\* is tried on the 60-object map with an API that finds everything; a
\* missing answer and the other maps are tried with an empty map
\* leaderboard.
InitPlay ==
    /\ play \in PlayInputs
    /\ hitobjects \in {Uniform(60), Uniform(1), <<>>}
    /\ \E a \in ApiInputs : api = [a EXCEPT !.user_recent = <<play>>]
    /\ \/ hitobjects = Uniform(60) /\ AllFound(api)
       \/ hitobjects = Uniform(60) /\ api.leaderboard = <<>>
       \/ AllFound(api) /\ api.leaderboard = <<>>
    /\ enabled_mods = {"HD", "DT"}
    /\ text = <<>>
    /\ mask = 0
    /\ raw = 0
    /\ op = "Play"
    /\ ret = NoRet
    /\ errors = 0
    /\ timingpoints = <<>>

\* stat_play(play)
StatPlay ==
    /\ op = "Play"
    /\ LET r == stat_play(play, enabled_mods, hitobjects, api)
       IN  /\ ret' = [raised |-> r.raised, returned |-> r.returned, report |-> r.report]
           /\ errors' = IF r.logged THEN errors + 1 ELSE errors
    /\ op' = "stat_play"
    /\ UNCHANGED <<enabled_mods, text, mask, raw, hitobjects, play, api, timingpoints>>

(***************************************************************************)
(* get_top and get_recent: the play at an index of the player's best or    *)
(* recent plays.                                                           *)
(***************************************************************************)

TOP_LIMIT == 100
RECENT_LIMIT == 50

ClampAbove(index, hi) == Min(index, hi)

\* min(max(index, 1), hi)
Clamp(index, hi) == Min(Max(index, 1), hi)

\* list[i] of Python, i from 0, negative i from the end
PyIndex(list, i) ==
    IF i >= 0 /\ i < Len(list) THEN [raised |-> "", value |-> list[i + 1]]
    ELSE IF i < 0 /\ -i <= Len(list) THEN [raised |-> "", value |-> list[Len(list) + i + 1]]
    ELSE [raised |-> "IndexError", value |-> NoPlay]

\* sorted(response, key=lambda k: k.date, reverse=reverse): a stable sort,
\* plays of the same date keep their order.  rank[i] is the place of the
\* i-th play: behind the plays that go before it and the earlier plays of
\* its date.  An empty response sorts to itself.
Sorted(response, reverse) ==
    LET n == Len(response)
        before(j, i) ==
            \/ IF reverse THEN response[j].date > response[i].date
                          ELSE response[j].date < response[i].date
            \/ response[j].date = response[i].date /\ j <= i
        rank == [i \in 1..n |-> Cardinality({j \in 1..n : before(j, i)})]
    IN  IF rank = <<>>
        THEN <<>>
        ELSE [place \in 1..n |-> response[CHOOSE i \in 1..n : rank[i] = place]]

\* the end of get_top and of get_recent: the length check and the indexing
AtIndex(response, index) ==
    PyIndex(response, (IF Len(response) < index THEN Len(response) ELSE index) - 1)

\* get_top(user, index, rb, ob)
get_top(a, index, rb, ob) ==
    LET clamped == Clamp(index, TOP_LIMIT)
        limit == IF rb \/ ob THEN TOP_LIMIT ELSE clamped
        response == get_user_best(a, limit)
        by_recent == IF rb THEN Sorted(response.value, TRUE) ELSE response.value
        by_old == IF ob THEN Sorted(by_recent, FALSE) ELSE by_recent
    IN  IF response.raised # ""
        THEN [raised |-> response.raised, value |-> NoPlay]
        ELSE AtIndex(by_old, clamped)

\* get_recent(user, index)
get_recent(a, index) ==
    LET clamped == Clamp(index, RECENT_LIMIT)
        response == get_user_recent(a, clamped)
    IN  IF response.raised # ""
        THEN [raised |-> response.raised, value |-> NoPlay]
        ELSE AtIndex(response.value, clamped)

(***************************************************************************)
(* The recent and top commands, and the specification of the play reports.*)
(***************************************************************************)

\* Command.call of the recent and top commands from the fetch of the play
\* on; fetched is what get_recent or get_top gave and r what stat_play gave
\* for the fetched play.  The result tells what stat_play gave (play_data),
\* the failure the command ends in, the messages sent to the channel and
\* the steps reached after stat_play.
CommandCall(fetched, r) ==
    LET stopped(play_data, sent, logs) ==
            [raised |-> "", play_data |-> play_data, sent |-> sent, reached |-> {},
             logs |-> logs, report |-> NoReport]
    IN  CASE fetched.raised # "" -> stopped("not called", <<"failure">>, 0)
          [] fetched.raised = "" /\ r.raised # "" -> stopped("raised", <<"failure">>, 1)
          [] fetched.raised = "" /\ r.raised = "" /\ r.returned = "None" ->
                [raised |-> "AttributeError", play_data |-> "None", sent |-> <<>>,
                 reached |-> {}, logs |-> 1, report |-> NoReport]
          [] OTHER ->
                [raised |-> "", play_data |-> "report", sent |-> <<"report">>,
                 reached |-> {"update_last_message", "embed_play"}, logs |-> 0,
                 report |-> r.report]

\* stat_play on the fetched play; it is not called when the fetch failed
StatFetched(fetched, mods, hit_objects, a) ==
    IF fetched.raised = "" THEN stat_play(fetched.value, mods, hit_objects, a)
    ELSE Raises(fetched.raised)

\* the recent command: get_recent(user, 1), stat_play, update_last_message,
\* embed_play (which sanitizes the report's mods in place), send
RecentCommand ==
    /\ op = "Play"
    /\ \E fetched \in {get_recent(api, 1)} :
         \E play_data \in {StatFetched(fetched, enabled_mods, hitobjects, api)} :
           \E r \in {CommandCall(fetched, play_data)} :
              /\ ret' = r
              /\ errors' = errors + r.logs
              /\ play' = IF fetched.raised = "" THEN fetched.value ELSE play
              /\ enabled_mods' = IF r.play_data = "report" /\ enabled_mods # {}
                                 THEN sanitize_mods(enabled_mods) ELSE enabled_mods
    /\ op' = "recent"
    /\ UNCHANGED <<text, mask, raw, hitobjects, api, timingpoints>>

\* the top command: get_top(user, 1, False, False) and the same steps
TopCommand ==
    /\ op = "Play"
    /\ \E fetched \in {get_top(api, 1, FALSE, FALSE)} :
         \E play_data \in {StatFetched(fetched, enabled_mods, hitobjects, api)} :
           \E r \in {CommandCall(fetched, play_data)} :
              /\ ret' = r
              /\ errors' = errors + r.logs
              /\ play' = IF fetched.raised = "" THEN fetched.value ELSE play
              /\ enabled_mods' = IF r.play_data = "report" /\ enabled_mods # {}
                                 THEN sanitize_mods(enabled_mods) ELSE enabled_mods
    /\ op' = "top"
    /\ UNCHANGED <<text, mask, raw, hitobjects, api, timingpoints>>

NextPlay ==
    \/ StatPlay
    \/ RecentCommand
    \/ TopCommand

SpecPlay == InitPlay /\ [][NextPlay]_vars

MaxPlays == 100     \* plays the API holds for a player

\* The i-th play of a list, set at a date.
Ranked(i, date) == [user_id |-> 1, date |-> date, score |-> 1000000 - i, score_id |-> i]

\* Lists of n plays: each better play older, each better play newer, dates
\* scattered, and dates shared by two neighbours.
DatedLists(n) ==
    {[i \in 1..n |-> Ranked(i, i)],
     [i \in 1..n |-> Ranked(i, n + 1 - i)],
     [i \in 1..n |-> Ranked(i, (7 * i) % 103)],
     [i \in 1..n |-> Ranked(i, (n - i) \div 2)]}

Lengths == {0, 1, 4, 5, 6, MaxPlays - 1, MaxPlays}

IndexInputs == {-3, 0, 1, 2, 5, 6, 50, 51, 99, 100, 101, 250}

InitTop ==
    /\ \E n \in Lengths : \E l \in DatedLists(n) :
          api = [ApiOk EXCEPT !.user_best = l,
                              !.user_recent = SubSeq(l, 1, Min(n, RECENT_LIMIT))]
    /\ play = NoPlay
    /\ hitobjects = <<>>
    /\ enabled_mods = {}
    /\ text = <<>>
    /\ mask = 0
    /\ raw = 0
    /\ op = "Command"
    /\ ret = NoRet
    /\ errors = 0
    /\ timingpoints = <<>>

\* get_top(user, index, rb, ob), as the top command calls it
GetTop ==
    /\ op = "Command"
    /\ \E index \in IndexInputs, rb \in BOOLEAN, ob \in BOOLEAN :
          LET r == get_top(api, index, rb, ob)
          IN  ret' = [raised |-> r.raised, value |-> r.value, index |-> index, rb |-> rb, ob |-> ob]
    /\ op' = "get_top"
    /\ UNCHANGED <<enabled_mods, text, mask, raw, errors, hitobjects, play, api, timingpoints>>

\* get_recent(user, index), as the recent command calls it
GetRecent ==
    /\ op = "Command"
    /\ \E index \in IndexInputs :
          LET r == get_recent(api, index)
          IN  ret' = [raised |-> r.raised, value |-> r.value, index |-> index, rb |-> FALSE, ob |-> FALSE]
    /\ op' = "get_recent"
    /\ UNCHANGED <<enabled_mods, text, mask, raw, errors, hitobjects, play, api, timingpoints>>

NextTop ==
    \/ GetTop
    \/ GetRecent

SpecTop == InitTop /\ [][NextTop]_vars

(***************************************************************************)
(* The bpm figures of MapStats.__init__.                                   *)
(*                                                                         *)
(* A timing point is [starttime, ms_per_beat, change]; the inputs have     *)
(* ms_per_beat dividing 60000, so a segment's bpm is a whole number.       *)
(* bpm_min and bpm_max are in hundredths (speed is), and bpm is the        *)
(* fraction num / den, in hundredths as well.                              *)
(***************************************************************************)

\* 1000 / i.ms_per_beat * 60
SegmentBpm(i) == 60000 \div i.ms_per_beat

IsChange(i) == i.change

RECURSIVE SumSeq(_)
SumSeq(q) == IF q = <<>> THEN 0 ELSE Head(q) + SumSeq(Tail(q))

RECURSIVE MinSeq(_)
MinSeq(q) == IF Len(q) = 1 THEN q[1] ELSE Min(q[1], MinSeq(Tail(q)))

RECURSIVE MaxSeq(_)
MaxSeq(q) == IF Len(q) = 1 THEN q[1] ELSE Max(q[1], MaxSeq(Tail(q)))

\* lines 698-718 and 780 on a map with hit objects
MapStats_bpm(hit_objects, timing_points, mods) ==
    LET speed == speed_multiplier(mods)
        length == hit_objects[Len(hit_objects)].starttime
        change_list == SelectSeq(timing_points, IsChange)
        dur(j) == IF j = Len(change_list)
                  THEN length - change_list[j].starttime
                  ELSE change_list[j + 1].starttime - change_list[j].starttime
        bpm_avg == [j \in 1..Len(change_list) |-> SegmentBpm(change_list[j]) * dur(j)]
        bpm_list == [j \in 1..Len(change_list) |-> SegmentBpm(change_list[j])]
        none == [num |-> 0, den |-> 1]
    IN  IF change_list = <<>>
        THEN [raised |-> "ValueError", bpm_min |-> 0, bpm_max |-> 0, bpm |-> none]
        ELSE IF length = hit_objects[1].starttime
        THEN [raised |-> "ZeroDivisionError", bpm_min |-> MinSeq(bpm_list) * speed,
              bpm_max |-> MaxSeq(bpm_list) * speed, bpm |-> none]
        ELSE [raised |-> "",
              bpm_min |-> MinSeq(bpm_list) * speed,
              bpm_max |-> MaxSeq(bpm_list) * speed,
              bpm |-> [num |-> SumSeq(bpm_avg) * speed,
                       den |-> length - hit_objects[1].starttime]]

\* MapStats.__init__ with its bpm figures: min(bpm_list) at line 717 comes
\* before the metadata fetch, the division at line 780 after the last one.
MapStatsWithBpm(hit_objects, timing_points, mods, a) ==
    LET m == MapStats(hit_objects, a)
        failed(kind, calls) ==
            [raised |-> kind, calls |-> calls, hit_objects |-> 0, leaderboard |-> <<>>]
    IN  IF m.raised \in {"BadLink", "BadMapFile", "UserNonexistent"}
        THEN m
        ELSE LET b == MapStats_bpm(hit_objects, timing_points, mods)
             IN  IF b.raised = "ValueError"
                 THEN failed("ValueError", <<"map_file", "get_user", "getStats">>)
                 ELSE IF m.raised # ""
                 THEN m
                 ELSE [raised |-> "", calls |-> m.calls, hit_objects |-> m.hit_objects,
                       leaderboard |-> m.leaderboard, bpm_min |-> b.bpm_min,
                       bpm_max |-> b.bpm_max, bpm |-> b.bpm]

MaxTimingPoints == 2    \* timing points of a beatmap

TimingPointInputs ==
    [starttime : {-100, 0, 500, 1000, 1500}, ms_per_beat : {500, 250}, change : BOOLEAN]

TimingInputs ==
    UNION {{t \in [1..n -> TimingPointInputs] :
                \A i \in 1..(n - 1) : t[i].starttime <= t[i + 1].starttime} :
           n \in 0..MaxTimingPoints}

\* First and last hit object of the map.
EndPoints ==
    {<<[starttime |-> t[1], strains |-> <<5000, 10000>>],
       [starttime |-> t[2], strains |-> <<5000, 10000>>]>> :
        t \in {u \in Times \X Times : u[1] <= u[2]}}

InitBpm ==
    /\ hitobjects \in EndPoints
    /\ timingpoints \in TimingInputs
    /\ enabled_mods \in {{}, {"DT"}}
    /\ api = ApiOk
    /\ play = NoPlay
    /\ text = <<>>
    /\ mask = 0
    /\ raw = 0
    /\ op = "OsuMap"
    /\ ret = NoRet
    /\ errors = 0

\* MapStats(map_id, mods, "id") on a map with its timing points
MapStatsBpm ==
    /\ op = "OsuMap"
    /\ ret' = MapStatsWithBpm(hitobjects, timingpoints, enabled_mods, api)
    /\ op' = "MapStats"
    /\ UNCHANGED <<enabled_mods, text, mask, raw, errors, hitobjects, play, api, timingpoints>>

NextBpm == MapStatsBpm

SpecBpm == InitBpm /\ [][NextBpm]_vars

(***************************************************************************)
(* Properties                                                              *)
(***************************************************************************)

\* The bit of a code is set in bitmask m.
HasBit(name, m) == BitSet(ModValue(name), m)

\* All the ways to cut t into registry codes.
RECURSIVE Segmentations(_)
Segmentations(t) ==
    IF t = <<>> THEN {<<>>}
    ELSE UNION { {<<MODS[i].name>> \o q : q \in Segmentations(Drop(t, Len(MODS[i].chars)))} :
                 i \in {j \in DOMAIN MODS : IsPrefix(MODS[j].chars, t)} }

\* s with every '+' removed and every letter in upper case.
NotPlus(c) == c # "+"
Canonical(s) == LET t == SelectSeq(s, NotPlus) IN [i \in 1..Len(t) |-> Upper(t[i])]

\* t without the newline that ends it, if one does.
DropFinalNewline(t) ==
    IF t # <<>> /\ t[Len(t)] = "\n" THEN SubSeq(t, 1, Len(t) - 1) ELSE t

\* C1: speed_multiplier returns exactly 1.5 if the set contains DT or NC,
\* exactly 0.75 if it contains HT and neither DT nor NC, and exactly 1.0
\* otherwise.
C1_SpeedMultiplier ==
    op = "speed_multiplier" =>
        /\ ("DT" \in enabled_mods \/ "NC" \in enabled_mods) => ret.value = 150
        /\ ("HT" \in enabled_mods /\ "DT" \notin enabled_mods /\ "NC" \notin enabled_mods)
               => ret.value = 75
        /\ ({"DT", "NC", "HT"} \cap enabled_mods = {}) => ret.value = 100

C1_Witness ==
    /\ op = "speed_multiplier"
    /\ enabled_mods \cap {"DT", "NC", "HT"} = {"NC", "HT"}
    /\ ret.value = 150

\* C2: whatever mod_int is given (a list, a set, a display string or an
\* integer bitmask), the bitmask it returns has no bit set outside the bits
\* of HR, EZ, DT, HT, NC, FL, HD and NF.
C2_OnlyAllowListedBits ==
    (op \in {"mod_int", "mod_int_str", "mod_int_int"} /\ ret.raised = "") =>
        \A b \in 0..30 :
            BitSet(2 ^ b, ret.value) => \E n \in DIFF_MODS : ModValue(n) = 2 ^ b

\* C3: mod_int of a collection that contains NC, given as a list, a set or a
\* display string, returns a bitmask with the NC bit and the DT bit set;
\* sanitize_mods of a collection with NC and DT (PF and SD) yields one with NC
\* but not DT (PF but not SD) and every other member kept, and mod_int of the
\* sanitized collection still has both bits.
C3_NcSetsDtBit ==
    [][ /\ (op' = "mod_int_str" /\ \E q \in Segmentations(Canonical(text)) : "NC" \in SeqToSet(q))
            => (ret'.raised = "" /\ HasBit("NC", ret'.value) /\ HasBit("DT", ret'.value))
        /\ (op' = "mod_int" /\ HoldsMods /\ "NC" \in enabled_mods)
            => (ret'.raised = "" /\ HasBit("NC", ret'.value) /\ HasBit("DT", ret'.value))
        /\ (op' = "sanitize_mods" /\ {"NC", "DT"} \subseteq enabled_mods)
            => (/\ "NC" \in enabled_mods' /\ "DT" \notin enabled_mods'
                /\ enabled_mods' \ {"SD"} = enabled_mods \ {"DT", "SD"})
        /\ (op' = "sanitize_mods" /\ {"PF", "SD"} \subseteq enabled_mods)
            => (/\ "PF" \in enabled_mods' /\ "SD" \notin enabled_mods'
                /\ enabled_mods' \ {"DT"} = enabled_mods \ {"DT", "SD"})
      ]_vars

\* C4: no operation of the modifier model changes the membership of the
\* collection it is given: across sanitize_mods, embed_play, mod_int and
\* speed_multiplier the caller's collection stays as it was.
C4_NoMutation ==
    [][ op' \in {"sanitize_mods", "embed_play", "mod_int", "mod_int_str", "mod_int_int",
                 "speed_multiplier"}
            => enabled_mods' = enabled_mods ]_vars

\* C5 as stated: parse_mods_string never raises; when the string, '+' removed
\* and upper-cased, is not a concatenation of registry codes it returns the
\* empty list and logs an error, and when it is, it returns the set of the
\* codes in it.
C5_AsStated ==
    op = "parse_mods_string" =>
        /\ ret.raised = ""
        /\ LET segs == Segmentations(Canonical(text))
           IN  IF segs = {} THEN ret.value = {} /\ errors = 1
               ELSE ret.value \in {SeqToSet(q) : q \in segs}

\* C5, amended: parse_mods_string never raises.  For '' and 'nomod' it
\* returns the empty list and logs nothing.  Otherwise, with t the string
\* after removing '+', upper-casing and dropping one newline that ends it:
\* if t is not a concatenation of one or more registry codes, it returns the
\* empty list and logs an error; if it is, it returns exactly the set of the
\* codes in t and logs nothing.
C5_ParseModsString ==
    op = "parse_mods_string" =>
        /\ ret.raised = ""
        /\ IF text = <<>> \/ text = Nomod THEN ret.value = {} /\ errors = 0
           ELSE LET t == DropFinalNewline(Canonical(text))
                    segs == Segmentations(t)
                IN  IF t = <<>> \/ segs = {} THEN ret.value = {} /\ errors = 1
                    ELSE ret.value \in {SeqToSet(q) : q \in segs} /\ errors = 0

C5_Witness ==
    /\ op = "parse_mods_string"
    /\ text = <<"+", "h", "r", "H", "D">>
    /\ ret.value = {"HR", "HD"}
    /\ errors = 0

\* C6 as stated: parsing the comma-separated display form of a set, as
\* embed_play builds it, yields the set of the codes it lists.
C6_AsStated ==
    (op = "parse_display" /\ enabled_mods # {} /\ text = Join(enabled_mods)) =>
        ret.value = enabled_mods

\* C6, amended: parsing the comma-separated display form embed_play builds
\* yields the set of the codes it lists only when it lists a single code; a
\* display form of two or more codes holds a ',', fails validation and
\* parses to the empty list, with an error logged.
C6_ParseDisplay ==
    (op = "parse_display" /\ enabled_mods # {} /\ text = Join(enabled_mods)) =>
        IF Cardinality(enabled_mods) = 1
        THEN ret.value = enabled_mods
        ELSE ret.value = {} /\ errors >= 1

C6_Witness ==
    /\ op = "parse_display"
    /\ enabled_mods = {"HD", "DT"}
    /\ text = <<"H", "D", ",", "D", "T">>
    /\ ret.value = {}

\* C7: for every valid modifier string s made only of allow-listed codes,
\* with b = mod_int(parse_mods_string(s)), mod_int(parse_mods_int(b)) = b;
\* and parse_mods_int(b) returns exactly the registry names whose bit is set
\* in b, whatever bits b has outside the 30 registered positions.
C7_RoundTrip ==
    [][ /\ op' = "parse_mods_int"
            => enabled_mods' = {n \in ModNames : HasBit(n, mask')}
        /\ (/\ op = "parse_mods_int" /\ op' = "mod_int"
            /\ LET segs == Segmentations(Canonical(text))
               IN  /\ text # <<>> /\ segs # {}
                   /\ \A q \in segs : SeqToSet(q) \subseteq DIFF_MODS
            /\ mask = mod_int("list", parse_mods_string(text).value).value)
            => mask' = mask
      ]_vars

C7_Witness ==
    /\ op = "mod_int"
    /\ text = <<"N", "C", "H", "D">>
    /\ enabled_mods = {"NC", "DT", "HD"}
    /\ mask = 512 + 64 + 8

\* C8: the hit window CalculateMods.od returns is the clamped window divided
\* by speed_multiplier(mods): od uses the speed multiplier that ar and
\* speed_multiplier use for the same mods.
C8_OdUsesSpeedMultiplier ==
    op = "od" =>
        /\ ret.value.odms * speed_multiplier(enabled_mods) = OdWindow(enabled_mods, raw) * 100
        /\ OD10_MS * 30 <= OdWindow(enabled_mods, raw)
        /\ OdWindow(enabled_mods, raw) <= OD0_MS * 30

\* C9: for any raw AR in [0, 12] and any mods, the approach window of
\* CalculateMods.ar lies in [450, 1800] ms before the division by the speed
\* multiplier: the returned window times the speed is in that range.
C9_ArWindowClamped ==
    op = "ar" =>
        LET w == ret.value.ar_ms * speed_multiplier(enabled_mods)
        IN  450 * 300 * 100 <= w /\ w <= 1800 * 300 * 100

C9_Witness ==
    /\ op = "ar"
    /\ raw = 120
    /\ {"HR", "DT"} \subseteq enabled_mods
    /\ ret.value.ar_ms = 90000

\* C10: cs and hp return min(raw * factor, 10), the factor being the HR
\* factor (1.3 for cs, 1.4 for hp) whenever HR is in the mods, also beside
\* EZ, 0.5 when EZ is there without HR, and 1 otherwise; the result never
\* exceeds 10.
C10_CsHp ==
    LET f(hr) == IF "HR" \in enabled_mods THEN hr
                 ELSE IF "EZ" \in enabled_mods THEN 5 ELSE 10
    IN  /\ op = "cs" => (ret.value = Min(raw * f(13), 1000) /\ ret.value <= 1000)
        /\ op = "hp" => (ret.value = Min(raw * f(14), 1000) /\ ret.value <= 1000)

C10_Witness ==
    /\ op = "cs"
    /\ {"HR", "EZ"} \subseteq enabled_mods
    /\ raw = 50
    /\ ret.value = 650

\* The hit objects of the end-to-end scenario: times 0, 500, 1000, aim
\* strains 1.0, 2.0, 1.5, speed strains 0.5 each.
Scenario ==
    <<[starttime |-> 0, strains |-> <<5000, 10000>>],
      [starttime |-> 500, strains |-> <<5000, 20000>>],
      [starttime |-> 1000, strains |-> <<5000, 15000>>]>>

\* The number k of the bucket ((k - 1) * width, k * width] holding time t,
\* and of the bucket [k * width, (k + 1) * width) holding it.
BucketClosedRight(t, width) ==
    CHOOSE k \in 0..(t \div width + 1) : (k - 1) * width < t /\ t <= k * width
BucketClosedLeft(t, width) ==
    CHOOSE k \in 0..(t \div width + 1) : k * width <= t /\ t < (k + 1) * width

\* The width 400 * speed of a bucket under the mods in force.
BucketWidth ==
    CASE enabled_mods \cap {"DT", "NC"} # {} -> 600
      [] enabled_mods \cap {"DT", "NC"} = {} /\ "HT" \in enabled_mods -> 300
      [] OTHER -> 400

\* The first index at which a sequence of numbers takes its largest value.
ArgMax(q) == CHOOSE k \in DOMAIN q : (\A j \in DOMAIN q : q[j] <= q[k]) /\ (\A j \in 1..(k - 1) : q[j] < q[k])

FirstTime == hitobjects[1].starttime
LastTime == hitobjects[Len(hitobjects)].starttime

\* C11 as stated: calculate_strains returns one entry per bucket
\* [k * width, (k + 1) * width) met by the time range from the first to the
\* last hit object, and for the scenario that is 3 buckets, the first with
\* raw aim maximum 1.0 and the second, holding the object at 500, with the
\* peak combined strain.
C11_AsStated ==
    (op = "calculate_strains" /\ ret.raised = "") =>
        /\ Len(ret.value) = BucketClosedLeft(LastTime, BucketWidth) - BucketClosedLeft(FirstTime, BucketWidth) + 1
        /\ (hitobjects = Scenario /\ enabled_mods = {}) => Len(ret.value) = 3

\* C11: calculate_strains returns one entry per bucket
\* ((k - 1) * width, k * width], width = 400 * speed, from the one holding
\* the first hit object to the one holding the last; for the scenario that
\* is 4 buckets for aim and for speed, the first with raw aim maximum 1.0,
\* and the peak combined strain is in the third, the bucket (400, 800] of
\* the object at time 500.
C11_BucketCount ==
    (op = "calculate_strains" /\ ret.raised = "") =>
        /\ Len(ret.value) = BucketClosedRight(LastTime, BucketWidth) - BucketClosedRight(FirstTime, BucketWidth) + 1
        /\ (hitobjects = Scenario /\ enabled_mods = {}) =>
              /\ Len(ret.value) = 4
              /\ RawStrains(1, hitobjects, 100)[1] = STRAIN_ONE
              /\ LET aim == calculate_strains(1, hitobjects, 100).value
                     speed == calculate_strains(0, hitobjects, 100).value
                 IN  /\ Len(aim) = 4 /\ Len(speed) = 4
                     /\ ArgMax(star_strains(aim, speed)) = 3
                     /\ BucketClosedRight(500, 400) - BucketClosedRight(0, 400) + 1 = 3

C11_Witness ==
    /\ op = "calculate_strains"
    /\ hitobjects = Scenario
    /\ enabled_mods = {}
    /\ ret.mode_type = 1
    /\ Len(ret.value) = 4

\* C12: in get_strains the aim and speed sequences have the same length
\* and no negative entry, and the combined value of every bucket i is
\* aim[i] + speed[i] + |speed[i] - aim[i]| * 0.5, at least max(aim[i], speed[i]).
C12_Combined ==
    (op = "get_strains" /\ ret.raised = "") =>
        /\ Len(ret.aim_strains) = Len(ret.speed_strains)
        /\ Len(ret.star_strains) = Len(ret.aim_strains)
        /\ \A i \in 1..Len(ret.aim_strains) :
              LET a == ret.aim_strains[i]
                  s == ret.speed_strains[i]
                  d == IF s >= a THEN s - a ELSE a - s
              IN  /\ a >= 0 /\ s >= 0
                  /\ ret.star_strains[i] = a + s + (d * 5) \div 10
                  /\ ret.star_strains[i] >= a /\ ret.star_strains[i] >= s
        /\ ret.mode = "" => ret.strains = ret.star_strains

C12_Witness ==
    /\ op = "get_strains"
    /\ ret.raised = ""
    /\ ret.mode = ""
    /\ Len(ret.aim_strains) >= 3
    /\ \E i, j \in 1..Len(ret.aim_strains) :
          /\ ret.aim_strains[i] > ret.speed_strains[i]
          /\ ret.aim_strains[j] < ret.speed_strains[j]

\* C13: the peak time get_strains reports is k * bucketWidth + bucketOffset,
\* k the (0-based) index of the first bucket holding the maximum of the
\* chosen sequence, bucketWidth = 400 * speed and bucketOffset the time
\* offset of bucket 0 (times in 1/10000 ms).
C13_PeakTime ==
    (op = "get_strains" /\ ret.raised = "") =>
        ret.max_strain_time =
            ((ArgMax(ret.strains) - 1) * BucketWidth + ret.strain_offset) * STRAIN_ONE

\* The failure kinds derived from MapError.
MapErrorKinds == {"BadLink", "BadMapFile", "BadId", "BadMapObject", "NoLeaderBoard", "NoBeatmap"}

\* C14: on a map without hit objects MapStats raises BadMapFile before it
\* fetches the creator's profile, the metadata or the leaderboard and before
\* any strain computation, and get_strains and calculate_strains fail with
\* a MapError kind.
C14_EmptyIsMapError ==
    hitobjects = <<>> =>
        /\ (op = "MapStats" /\ api.map_file) =>
              /\ ret.raised = "BadMapFile"
              /\ \A i \in DOMAIN ret.calls :
                    ret.calls[i] \notin {"get_user", "getStats", "get_beatmaps", "get_leaderboard"}
        /\ op \in {"get_strains", "calculate_strains"} => ret.raised \in MapErrorKinds

\* A stored play matches the play under report: same user_id, same date.
Matches(stored) == stored.user_id = play.user_id /\ stored.date = play.date

\* n is the 1-based position of the first match in list, or 0 without one.
IsFirstMatch(n, list) ==
    \/ n = 0 /\ \A j \in DOMAIN list : ~Matches(list[j])
    \/ n \in DOMAIN list /\ Matches(list[n]) /\ \A j \in 1..(n - 1) : ~Matches(list[j])

Reported == op = "stat_play" /\ ret.returned = "report"

\* C15: completion is 1 for a play whose rank is not F, and for rank F it
\* is (count300 + count100 + count50 + countmiss) / (number of hit objects
\* of the beatmap); rank F with 40/5/2/3 on a 60-object map gives 50/60.
C15_Completion ==
    Reported =>
        /\ play.rank # <<"F">> => ret.report.completion = [num |-> 1, den |-> 1]
        /\ play.rank = <<"F">> =>
              /\ ret.report.completion.num = play.count300 + play.count100 + play.count50 + play.countmiss
              /\ ret.report.completion.den = Len(hitobjects)
        /\ (play.rank = <<"F">> /\ play.count300 = 40 /\ play.count100 = 5 /\ play.count50 = 2
                /\ play.countmiss = 3 /\ Len(hitobjects) = 60) =>
              ret.report.completion = [num |-> 50, den |-> 60]

C15_Witness ==
    /\ Reported
    /\ play.rank = <<"F">>
    /\ Len(hitobjects) = 60
    /\ ret.report.completion = [num |-> 50, den |-> 60]

\* C16: pb (lb) is the 1-based position of the first play of the player's
\* best list (the map leaderboard) with the play's user_id and date, 0 when
\* there is none; the other fields do not count.
C16_Positions ==
    Reported =>
        /\ IsFirstMatch(ret.report.pb, api.user_best)
        /\ IsFirstMatch(ret.report.lb, api.leaderboard)

\* A list with two matches, the first one in second place, each differing
\* from the play in its score, rank and hit counts; and a leaderboard
\* starting with two matches.
C16_Witness ==
    /\ Reported
    /\ ret.report.pb = 2
    /\ Len(api.user_best) = 2
    /\ api.user_best[2].score # play.score /\ api.user_best[2].rank # play.rank
    /\ api.user_best[2].count300 # play.count300
    /\ ret.report.lb = 1
    /\ Len(api.leaderboard) = 2 /\ Matches(api.leaderboard[2])

\* C17: the report's unsubmitted flag is false exactly when the stored best
\* score on the map exists and matches the play; in every other case, an
\* empty best-on-map list included, the report is marked unsubmitted.
C17_Unsubmitted ==
    Reported =>
        (ret.report.unsubmitted = FALSE <=> (api.map_best # <<>> /\ Matches(api.map_best[1])))

C19_FailuresPropagate ==
    op = "stat_play" =>
        /\ ret.returned # "None"
        /\ (MapStats(hitobjects, api).raised = "" /\ api.user_best = <<>>) => ret.raised = "NoPlays"
        /\ (MapStats(hitobjects, api).raised = "" /\ api.user_best # <<>> /\ ~api.user) =>
              ret.raised = "UserNonexistent"

\* n bounded to [1, hi], and the smaller of two numbers.
Bounded(n, hi) == IF n < 1 THEN 1 ELSE IF n > hi THEN hi ELSE n
Smaller(a, b) == IF a < b THEN a ELSE b

\* The 100 best plays the API holds.
Best100 == SubSeq(api.user_best, 1, Smaller(100, Len(api.user_best)))

\* v is a play of list that can stand in place p when list is put in the
\* order newest first (oldest first).
NewestFirstAt(list, v, p) ==
    /\ \E j \in DOMAIN list : list[j] = v
    /\ Cardinality({j \in DOMAIN list : list[j].date > v.date}) < p
    /\ p <= Cardinality({j \in DOMAIN list : list[j].date >= v.date})
OldestFirstAt(list, v, p) ==
    /\ \E j \in DOMAIN list : list[j] = v
    /\ Cardinality({j \in DOMAIN list : list[j].date < v.date}) < p
    /\ p <= Cardinality({j \in DOMAIN list : list[j].date <= v.date})

ForwardGives(ar, ms) ==
    LET d == ar.den \div 300
    IN  IF ar.num <= 5 * ar.den
        THEN (AR0_MS * 300 - ms) * d = AR_MS_STEP1 * ar.num
        ELSE (AR5_MS * 300 - ms) * d = AR_MS_STEP2 * (ar.num - 5 * ar.den)

\* C21: the AR number CalculateMods.ar returns is the inverse of the
\* forward formula at the returned window: the forward formula on the
\* returned AR gives the returned approach window, for every raw AR in
\* [0, 10] and every set of mods.
C21_ArInverse ==
    (op = "ar" /\ raw <= 100) => ForwardGives(ret.value.ar, ret.value.ar_ms)

\* The end of the first bucket calculate_strains closes, and the last hit
\* object at or before a time (the object the code calls the previous one
\* when it closes the bucket ending at that time).
FirstEnd == ((FirstTime + BucketWidth - 1) \div BucketWidth) * BucketWidth
LastObjectUpTo(t) ==
    hitobjects[CHOOSE i \in DOMAIN hitobjects :
                  /\ hitobjects[i].starttime <= t
                  /\ \A j \in (i + 1)..Len(hitobjects) : hitobjects[j].starttime > t]

\* C22: when calculate_strains closes a bucket, the next one opens with the
\* previous hit object's own strain times the decay base raised to the
\* time, in seconds, from that object to the closed bucket's end.  Seen on
\* a bucket k holding no hit object, whose value is the one it opened with:
\* after 0 ms it is exactly the previous object's strain, and after at most
\* 1000 ms it is at least that strain times the base.
C22_DecayOpens ==
    (op = "calculate_strains" /\ ret.raised = "") =>
        LET m == ret.mode_type
            strains == RawStrains(m, hitobjects, speed_multiplier(enabled_mods))
            base == IF m = 0 THEN 30 ELSE 15
        IN  \A k \in 2..Len(strains) :
                LET closed == FirstEnd + (k - 2) * BucketWidth
                    prev == LastObjectUpTo(closed)
                    elapsed == closed - prev.starttime
                    empty == \A i \in DOMAIN hitobjects :
                                ~(closed < hitobjects[i].starttime
                                    /\ hitobjects[i].starttime <= closed + BucketWidth)
                IN  empty =>
                        /\ elapsed = 0 => strains[k] = prev.strains[m + 1]
                        /\ elapsed <= 1000 => strains[k] * 100 >= prev.strains[m + 1] * base

\* C23: the bpm MapStats stores is the duration-weighted mean of the
\* segment bpms, so on a map with a bpm change event, wherever the timing
\* points lie, bpm_min <= bpm <= bpm_max.
C23_BpmInRange ==
    (op = "MapStats" /\ ret.raised = "") =>
        /\ ret.bpm_min * ret.bpm.den <= ret.bpm.num
        /\ ret.bpm.num <= ret.bpm_max * ret.bpm.den

\* C24: in the recent and top commands, whenever stat_play ends without a
\* report (it raised, or a fetch inside it failed) the command sends a
\* failure message and stops; update_last_message, embed_play and the final
\* send are reached only with a complete report, and no missing report is
\* dereferenced.
C24_CommandStops ==
    op \in {"recent", "top"} =>
        /\ ret.play_data \in {"raised", "None"} => (ret.sent = <<"failure">> /\ ret.raised = "")
        /\ (ret.reached # {} \/ ret.sent = <<"report">>) => ret.play_data = "report"
        /\ ret.raised # "AttributeError"

====
